---- MODULE Spec2Model ----
(***************************************************************************)
(* A model of the drivetime repository:                                    *)
(*   review_streamlit_app.py  the place catalog (resolve, append, replace, *)
(*                            remove, clear) driven by Streamlit reruns    *)
(*   app.py                   the start-point / destination entry loops    *)
(*                                                                         *)
(* One step of Spec is one run of the Streamlit script main(): Streamlit   *)
(* runs the whole script once per user interaction.  The HTTP provider is  *)
(* the environment: its answers are tables below, and every call may fail. *)
(* Python values are modelled as strings (numbers by their literal text,   *)
(* so that the "N/A" sentinel and a number can be compared), JSON objects  *)
(* as functions on their keys, lists as sequences (1-based).               *)
(***************************************************************************)
EXTENDS Integers, Sequences, FiniteSets, TLC

VARIABLES
    places,      \* st.session_state.places
    widgets,     \* widgets[i]: option index held by the selectbox keyed select_<i-1>
    log,         \* what the last script run did: external calls and st.* notices
    action,      \* the user interaction that triggered the last script run
    rerun,       \* TRUE while a st.experimental_rerun() request is pending
    response,    \* SpecResolve: the provider's text-search exchange
    detail,      \* SpecResolve: the provider's details exchange
    a_pc,        \* app.py main(): position in the script
    a_start,     \* app.py main(): start_points, as a sequence of <<key, address>>
    a_dest,      \* app.py main(): destinations, as a sequence of <<key, address>>
    a_keys,      \* app.py: widget keys created so far in this run
    a_input,     \* app.py: what the user typed in each text input, by key
    a_log        \* app.py: st.* notices of this run

vars == <<places, widgets, log, action, rerun, response, detail,
          a_pc, a_start, a_dest, a_keys, a_input, a_log>>

reviewVars == <<places, widgets, log, action, rerun>>
resolveVars == <<response, detail>>
appVars == <<a_pc, a_start, a_dest, a_keys, a_input, a_log>>

----------------------------------------------------------------------------
(* Bounds of the model *)

MaxPlaces == 2      \* catalog entries
MaxResults == 6     \* results in a provider search response (SpecResolve)
MaxFields == 2      \* text inputs of app.py the user has typed into, per loop

----------------------------------------------------------------------------
(* Python helpers *)

PyNone == [None |-> TRUE]

\* truthiness of a dict-or-None
Truthy(v) == v # PyNone /\ DOMAIN v # {}

\* dict.get(key, default)
Get(d, key, default) == IF key \in DOMAIN d THEN d[key] ELSE default

\* seq[:n]
Take(seq, n) == SubSeq(seq, 1, IF Len(seq) < n THEN Len(seq) ELSE n)

\* del seq[i]  (i is 1-based here)
DelAt(seq, i) == SubSeq(seq, 1, i - 1) \o SubSeq(seq, i + 1, Len(seq))

\* the first index at which seq holds x (list.index), 0 when absent
RECURSIVE IndexFrom(_, _, _)
IndexFrom(seq, x, i) ==
    IF i > Len(seq) THEN 0
    ELSE IF seq[i] = x THEN i
    ELSE IndexFrom(seq, x, i + 1)

IndexOf(seq, x) == IndexFrom(seq, x, 1)

\* the last index at which seq holds x, 0 when absent
RECURSIVE LastIndexFrom(_, _, _)
LastIndexFrom(seq, x, i) ==
    IF i < 1 THEN 0
    ELSE IF seq[i] = x THEN i
    ELSE LastIndexFrom(seq, x, i - 1)

----------------------------------------------------------------------------
(* Events of a script run: external calls and st.* notices *)

\* an HTTP request: res is "ok" (a JSON answer) or "fail"; n counts the results
Call(api, arg, res, n) ==
    [ev |-> "call", what |-> api, arg |-> arg, res |-> res, n |-> n,
     phase |-> "", pos |-> 0]

\* st.error / st.success: a notice the user sees
Notice(level, kind, arg) ==
    [ev |-> "notice", what |-> kind, arg |-> arg, res |-> level, n |-> 0,
     phase |-> "", pos |-> 0]

\* which branch of the Submit loop a line took (history only, nothing is shown)
Branch(kind, arg) ==
    [ev |-> "branch", what |-> kind, arg |-> arg, res |-> "", n |-> 0,
     phase |-> "", pos |-> 0]

Tag(events, phase, pos) ==
    [k \in 1..Len(events) |-> [events[k] EXCEPT !.phase = phase, !.pos = pos]]

----------------------------------------------------------------------------
(* The provider (environment).  An exchange is what one HTTP request meets: *)
(* [kind |-> "json", body |-> b] or [kind |-> "error"] (transport failure  *)
(* or a non-2xx status, which raise_for_status turns into an exception).   *)

Pids == {"p1", "p2", "p3", "p4"}

\* p4 is a second listing of the place p1: same name and address, other id
ProviderName(pid) ==
    CASE pid = "p1" -> "Cafe" [] pid = "p2" -> "Bar"
      [] pid = "p3" -> "Deli" [] pid = "p4" -> "Cafe"

ProviderAddress(pid) ==
    CASE pid = "p1" -> "1 Main St" [] pid = "p2" -> "2 Main St"
      [] pid = "p3" -> "3 Main St" [] pid = "p4" -> "1 Main St"

\* one element of "results" of a text-search answer
ProviderPlace(pid) ==
    [name |-> ProviderName(pid), formatted_address |-> ProviderAddress(pid),
     place_id |-> pid]

\* "result" of a details answer; rating and user_ratings_total may be absent
ProviderDetail(pid) ==
    LET base == [name |-> ProviderName(pid),
                 formatted_address |-> ProviderAddress(pid)]
    IN CASE pid = "p1" -> base @@ [rating |-> "4.6", user_ratings_total |-> "120"]
         [] pid = "p2" -> base @@ [user_ratings_total |-> "0"]
         [] pid = "p3" -> base @@ [rating |-> "0"]
         [] pid = "p4" -> base

Queries == {"none", "deli", "bar", "cafe"}

\* the provider's ranked results for a query
ProviderResults(q) ==
    CASE q = "deli" -> <<"p3">>
      [] q = "bar"  -> <<"p2", "p3">>
      [] q = "cafe" -> <<"p1", "p2", "p4">>
      [] OTHER      -> <<>>

HttpError == [kind |-> "error"]

Json(body) == [kind |-> "json", body |-> body]

SearchOutcomes == {"ok", "fail"}
DetailOutcomes == {"ok", "fail"}

SearchExchange(q, outcome) ==
    IF outcome = "fail" THEN HttpError
    ELSE LET ids == ProviderResults(q)
         IN Json([results |-> [k \in 1..Len(ids) |-> ProviderPlace(ids[k])]])

\* "empty": a 200 answer without "result" (status NOT_FOUND or INVALID_REQUEST)
DetailsExchange(pid, outcome) ==
    CASE outcome = "fail"  -> HttpError
      [] outcome = "empty" -> Json([status |-> "NOT_FOUND"])
      [] OTHER             -> Json([result |-> ProviderDetail(pid)])

----------------------------------------------------------------------------
(* review_streamlit_app.py: helper functions.  Each returns              *)
(* [value |-> what the Python function returns, log |-> its events].      *)

NA == "N/A"

\* f"{name} :: {formatted_address}"
Display(place) == <<place["name"], place["formatted_address"]>>

perform_request(x) ==
    IF x.kind = "json"
    THEN [value |-> x.body, log |-> <<>>]
    ELSE [value |-> PyNone, log |-> <<Notice("error", "request_error", "")>>]

\* get_place_suggestions once perform_request has returned r
Suggestions(original_input, x, r) ==
    LET result == r.value
        found == Truthy(result) /\ "results" \in DOMAIN result
    IN [value |-> IF found
                  THEN [k \in 1..Len(result["results"]) |->
                          [display |-> Display(result["results"][k]),
                           place_id |-> result["results"][k]["place_id"]]]
                  ELSE <<>>,
        log |-> <<Call("search", original_input,
                       IF x.kind = "json" THEN "ok" ELSE "fail",
                       IF found THEN Len(result["results"]) ELSE 0)>> \o r.log]

get_place_suggestions(original_input, x) ==
    Suggestions(original_input, x, perform_request(x))

\* Details with 0 as the default of an absent rating or review count
DetailsZeroDefault(place_id, x, r) ==
    LET result == r.value
        found == Truthy(result) /\ "result" \in DOMAIN result
    IN [value |-> IF found
                  THEN [name |-> Get(result["result"], "name", NA),
                        address |-> Get(result["result"], "formatted_address", NA),
                        rating |-> Get(result["result"], "rating", "0"),
                        total_ratings |->
                            Get(result["result"], "user_ratings_total", "0")]
                  ELSE PyNone,
        log |-> <<Call("details", place_id,
                       IF x.kind = "json" THEN "ok" ELSE "fail", 0)>> \o r.log]

\* get_place_details once perform_request has returned r
Details(place_id, x, r) ==
    LET result == r.value
        found == Truthy(result) /\ "result" \in DOMAIN result
    IN [value |-> IF found
                  THEN [name |-> Get(result["result"], "name", NA),
                        address |-> Get(result["result"], "formatted_address", NA),
                        rating |-> Get(result["result"], "rating", NA),
                        total_ratings |->
                            Get(result["result"], "user_ratings_total", NA)]
                  ELSE PyNone,
        log |-> <<Call("details", place_id,
                       IF x.kind = "json" THEN "ok" ELSE "fail", 0)>> \o r.log]

get_place_details(place_id, x) == Details(place_id, x, perform_request(x))

MaxAlternatives == 5

\* TopAlternatives cutting one candidate too late
TopAlternativesOffByOne(alternatives) ==
    IF alternatives # <<>> THEN Take(alternatives, MaxAlternatives + 1) ELSE <<>>

\* alternatives[:5] if alternatives else []
TopAlternatives(alternatives) ==
    IF alternatives # <<>> THEN Take(alternatives, MaxAlternatives) ELSE <<>>

\* find_place once get_place_suggestions has returned s
Found(s) == [value |-> TopAlternatives(s.value), log |-> s.log]

find_place(original_input, x) == Found(get_place_suggestions(original_input, x))

----------------------------------------------------------------------------
(* review_streamlit_app.py: session state *)

\* init_session_state on the first run of a session
init_session_state == <<>>

\* the on_click callback of "Clear All"; Streamlit runs it before the script
clear_all == <<>>

----------------------------------------------------------------------------
(* review_streamlit_app.py main(): the Submit Places block *)

\* what the user has in the text area, split at '\n'
TextAreaInputs ==
    {<<"none">>, <<"deli">>, <<"bar">>, <<"cafe">>,
     <<" bar ", "", "deli">>, <<"cafe", "cafe">>, <<"", "  ">>}

\* str.strip() on the lines the model enters
Strip(line) ==
    CASE line = " bar " -> "bar"
      [] line = "  " -> ""
      [] OTHER -> line

\* [name.strip() for name in places_input.split('\n') if name.strip()]
PlaceNames(lines) ==
    SelectSeq([k \in 1..Len(lines) |-> Strip(lines[k])], LAMBDA name : name # "")

\* any(existing name and address equal those of details)
IsDuplicate(ps, details) ==
    \E k \in 1..Len(ps) :
        /\ ps[k].details.name = details.name
        /\ ps[k].details.address = details.address

\* "if details:" of one iteration: f is what find_place returned, d what
\* get_place_details returned for the best match
SubmitDetails(ps, place_name, f, d) ==
    IF d.value # PyNone
    THEN IF ~IsDuplicate(ps, d.value)
         THEN [places |-> Append(ps, [original_input |-> place_name,
                                      alternatives |-> f.value,
                                      selected |-> f.value[1].place_id,
                                      details |-> d.value]),
               log |-> f.log \o d.log \o <<Notice("success", "added", place_name)>>]
         ELSE [places |-> ps,
               log |-> f.log \o d.log \o <<Branch("duplicate", place_name)>>]
    ELSE [places |-> ps, log |-> f.log \o d.log]

\* "if alternatives:" of one iteration; dx is the exchange the details
\* request for the best match meets
SubmitAlternatives(ps, place_name, f, dx) ==
    IF f.value # <<>>
    THEN SubmitDetails(ps, place_name, f,
                       get_place_details(f.value[1].place_id, dx))
    ELSE [places |-> ps,
          log |-> f.log \o <<Notice("error", "no_match", place_name)>>]

\* one iteration of "for place_name in place_names"; sx is the exchange
\* its text search meets
SubmitLine(ps, place_name, sx, dx) ==
    SubmitAlternatives(ps, place_name, find_place(place_name, sx), dx)

\* r with the events put before its log
After(events, r) == [r EXCEPT !.log = events \o @]

RECURSIVE SubmitLoop(_, _, _, _, _)
\* the iterations after iteration n, which returned one
SubmitRest(one, place_names, sxs, dxs, n) ==
    After(Tag(one.log, "submit", n),
          SubmitLoop(one.places, place_names, sxs, dxs, n + 1))

SubmitLoop(ps, place_names, sxs, dxs, n) ==
    IF n > Len(place_names) THEN [places |-> ps, log |-> <<>>]
    ELSE SubmitRest(SubmitLine(ps, place_names[n], sxs[n], dxs[n]),
                    place_names, sxs, dxs, n)

----------------------------------------------------------------------------
(* review_streamlit_app.py main(): the Review and Modify Places block *)

display_options(place) ==
    [k \in 1..Len(place.alternatives) |-> place.alternatives[k].display]

\* {alt['display']: alt['place_id'] for alt in alternatives}[d]: a later
\* alternative with the same display string overwrites an earlier one
display_to_id(place, d) ==
    place.alternatives[
        LastIndexFrom(display_options(place), d, Len(place.alternatives))].place_id

\* next((display of the alternative whose place_id is selected), options[0])
current_display(place) ==
    LET ids == [k \in 1..Len(place.alternatives) |-> place.alternatives[k].place_id]
        k == IndexOf(ids, place.selected)
    IN IF k = 0 THEN display_options(place)[1] ELSE display_options(place)[k]

default_index(place) ==
    LET k == IndexOf(display_options(place), current_display(place))
    IN IF k = 0 THEN 1 ELSE k

\* the selectbox reports an option other than the stored selection
Mismatch(place, widx) ==
    /\ place.alternatives # <<>>
    /\ display_options(place)[widx] # current_display(place)

\* ReviewUpdate storing the new selection before the details are known
ReviewUpdateSelectionFirst(ps, i, selected_place_id, d) ==
    IF d.value # PyNone
    THEN [places |-> [ps EXCEPT ![i].selected = selected_place_id,
                                ![i].details = d.value],
          log |-> d.log \o <<Notice("success", "updated", ps[i].original_input)>>,
          rerun |-> FALSE]
    ELSE [places |-> [ps EXCEPT ![i].selected = selected_place_id],
          log |-> d.log, rerun |-> FALSE]

\* "if new_details:" for entry i; d is what get_place_details returned
ReviewUpdate(ps, i, selected_place_id, d) ==
    IF d.value # PyNone
    THEN [places |-> [ps EXCEPT ![i].selected = selected_place_id,
                                ![i].details = d.value],
          log |-> d.log \o <<Notice("success", "updated", ps[i].original_input)>>,
          rerun |-> FALSE]
    ELSE [places |-> ps, log |-> d.log, rerun |-> FALSE]

\* "if selected_display != current_display:" for entry i
ReviewChange(ps, i, selected_place_id, dout) ==
    ReviewUpdate(ps, i, selected_place_id,
                 get_place_details(selected_place_id,
                                   DetailsExchange(selected_place_id, dout)))

\* the body of "for i, place in enumerate(places)" for entry i.  widx is
\* the option index selectbox i reports, dout the outcome of the details
\* request made for the entry, removeAt the Remove button pressed (0: none).
ReviewEntry(ps, widx, dout, removeAt, i) ==
    IF ps[i].alternatives = <<>>
    THEN [places |-> ps, log |-> <<>>, rerun |-> FALSE]
    ELSE IF removeAt = i
    THEN \* del, st.success, st.experimental_rerun(): the run stops here
         [places |-> DelAt(ps, i),
          log |-> <<Notice("success", "removed", ps[i].original_input)>>,
          rerun |-> TRUE]
    ELSE IF Mismatch(ps[i], widx)
    THEN ReviewChange(ps, i,
                      display_to_id(ps[i], display_options(ps[i])[widx]), dout)
    ELSE [places |-> ps, log |-> <<>>, rerun |-> FALSE]

RECURSIVE ReviewLoop(_, _, _, _, _)
\* the entries after entry i, whose body returned one; none when the run
\* was stopped for a rerun
ReviewRest(one, w, douts, removeAt, i) ==
    After(Tag(one.log, "review", i),
          IF one.rerun THEN [places |-> one.places, log |-> <<>>, rerun |-> TRUE]
          ELSE ReviewLoop(one.places, w, douts, removeAt, i + 1))

ReviewLoop(ps, w, douts, removeAt, i) ==
    IF i > Len(ps) THEN [places |-> ps, log |-> <<>>, rerun |-> FALSE]
    ELSE ReviewRest(ReviewEntry(ps, w[i], douts[i], removeAt, i),
                    w, douts, removeAt, i)

----------------------------------------------------------------------------
(* Streamlit: the state of the selectbox widgets between script runs.      *)
(* A widget keeps its value from run to run while its key and its          *)
(* parameters (label, options, index) stay the same; otherwise it is a new *)
(* widget showing options[index].                                          *)

WidgetParams(place) ==
    <<place.original_input, display_options(place), default_index(place)>>

\* the selectboxes a run renders for new entries show their default option
Rendered(ps, w) ==
    [i \in 1..Len(ps) |-> IF i <= Len(w) THEN w[i] ELSE default_index(ps[i])]

\* after a run that went through the whole list
NextWidgets(before, after, w) ==
    [i \in 1..Len(after) |->
        IF i <= Len(before) /\ WidgetParams(after[i]) = WidgetParams(before[i])
        THEN w[i]
        ELSE default_index(after[i])]

\* after a run that deleted entry r and stopped: the entries behind r move
\* up by one key.  The selectboxes behind r were not rendered by the stopped
\* run; keep says whether this Streamlit build keeps their state.
NextWidgetsRemoved(before, after, w, r, keep) ==
    [i \in 1..Len(after) |->
        IF WidgetParams(after[i]) = WidgetParams(before[i])
           /\ (i <= r \/ keep)
        THEN w[i]
        ELSE default_index(after[i])]

----------------------------------------------------------------------------
(* One run of main() per user interaction *)

Idle == [kind |-> "init", pos |-> 0, opt |-> 0]

\* the outcomes of the details requests of a review loop over ps: one per
\* entry whose selectbox differs from its stored selection
ReviewOutcomes(ps, w) ==
    {o \in [1..Len(ps) -> DetailOutcomes] :
        \A i \in 1..Len(ps) : ~Mismatch(ps[i], w[i]) => o[i] = "ok"}

\* the first result the provider ranks for a query
BestPid(q) == IF ProviderResults(q) = <<>> THEN "p1" ELSE ProviderResults(q)[1]

\* the outcomes of the requests of a Submit over place_names
SubmitOutcomes(place_names) ==
    {o \in [1..Len(place_names) -> SearchOutcomes \X DetailOutcomes] :
        \A n \in 1..Len(place_names) :
            (o[n][1] = "fail" \/ ProviderResults(place_names[n]) = <<>>)
                => o[n][2] = "ok"}

\* the script from "Review and Modify Places" on; sub is what came before
Review(sub, w, douts, removeAt) ==
    After(sub.log,
          ReviewLoop(sub.places, Rendered(sub.places, w), douts, removeAt, 1))

\* the script from "if st.button('Submit Places')" to its end
main(ps, w, submitted, place_names, sxs, dxs, douts, removeAt) ==
    Review(IF submitted THEN SubmitLoop(ps, place_names, sxs, dxs, 1)
           ELSE [places |-> ps, log |-> <<>>],
           w, douts, removeAt)

\* the state a run leaves: what it did, and the widgets as the next run
\* will find them
Finish(run, kind, pos, opt, w) ==
    /\ places' = run.places
    /\ widgets' = w
    /\ log' = run.log
    /\ action' = [kind |-> kind, pos |-> pos, opt |-> opt]
    /\ rerun' = run.rerun
    /\ UNCHANGED <<resolveVars, appVars>>

\* the exchanges the requests of a Submit meet, from their outcomes
SearchExchanges(place_names, o) ==
    [n \in 1..Len(place_names) |-> SearchExchange(place_names[n], o[n][1])]

DetailsExchanges(place_names, o) ==
    [n \in 1..Len(place_names) |->
        DetailsExchange(BestPid(place_names[n]), o[n][2])]

\* the user fills the text area and presses "Submit Places"
SubmitPlaces ==
    /\ ~rerun
    /\ \E lines \in TextAreaInputs :
       \E place_names \in {PlaceNames(lines)} :
         /\ Len(places) + Len(place_names) <= MaxPlaces
         /\ \E o \in SubmitOutcomes(place_names) :
            \E douts \in ReviewOutcomes(places, widgets) :
            \E run \in {main(places, widgets, TRUE, place_names,
                              SearchExchanges(place_names, o),
                              DetailsExchanges(place_names, o),
                              douts @@ [i \in 1..MaxPlaces |-> "ok"], 0)} :
              Finish(run, "submit", 0, 0,
                     NextWidgets(places, run.places, Rendered(run.places, widgets)))

\* the user picks option k in the selectbox of entry i
SelectAlternative ==
    /\ ~rerun
    /\ \E i \in 1..Len(places) : \E k \in 1..Len(places[i].alternatives) :
         /\ k # widgets[i]
         /\ \E w \in {[widgets EXCEPT ![i] = k]} :
            \E douts \in ReviewOutcomes(places, w) :
            \E run \in {main(places, w, FALSE, <<>>, <<>>, <<>>, douts, 0)} :
              Finish(run, "select", i, k, NextWidgets(places, run.places, w))

\* whether the Streamlit build keeps the state of the selectboxes a stopped
\* run did not reach: it shows only where an entry behind r moves onto a
\* selectbox with its own parameters and another value
KeepChoices(ps, w, r) ==
    IF \E p \in (r + 1)..(Len(ps) - 1) :
          /\ WidgetParams(ps[p + 1]) = WidgetParams(ps[p])
          /\ w[p] # default_index(ps[p + 1])
    THEN BOOLEAN ELSE {FALSE}

\* the user presses "Remove" of entry i
RemovePlace ==
    /\ ~rerun
    /\ \E i \in 1..Len(places) :
       \E douts \in ReviewOutcomes(places, widgets) :
       \E keep \in KeepChoices(places, widgets, i) :
         /\ places[i].alternatives # <<>>
         /\ \A j \in i..Len(places) : douts[j] = "ok"
         /\ \E run \in {main(places, widgets, FALSE, <<>>, <<>>, <<>>, douts, i)} :
              Finish(run, "remove", i, 0,
                     NextWidgetsRemoved(places, run.places, widgets, i, keep))

\* the user presses "Clear All": the callback, then a run over no entries
ClearAll ==
    /\ ~rerun
    /\ \E run \in {main(clear_all, <<>>, FALSE, <<>>, <<>>, <<>>, <<>>, 0)} :
         Finish(run, "clear", 0, 0, <<>>)

\* a run nobody asked an entry for: the rerun st.experimental_rerun()
\* requested, or the user edited the text area
ScriptRerun ==
    \E douts \in ReviewOutcomes(places, widgets) :
    \E run \in {main(places, widgets, FALSE, <<>>, <<>>, <<>>, douts, 0)} :
      Finish(run, "rerun", 0, 0, NextWidgets(places, run.places, widgets))

----------------------------------------------------------------------------
(* Resolving one query into an empty catalog, for every provider answer *)

ResultPids == {"p1", "p2", "p3"}

\* the result lists a text search may answer with
ResultLists == UNION {[1..n -> ResultPids] : n \in 0..MaxResults}

SearchResponses ==
    {HttpError, Json([status |-> "REQUEST_DENIED"])}
    \cup {Json([results |-> [k \in 1..Len(ids) |-> ProviderPlace(ids[k])]]) :
            ids \in ResultLists}

\* the "result" objects a details request may answer with: rating and
\* user_ratings_total each absent, zero or positive
DetailResults ==
    {[name |-> "Cafe", formatted_address |-> "1 Main St"] @@ r @@ t :
        r \in {<<>>, [rating |-> "0"], [rating |-> "4.6"]},
        t \in {<<>>, [user_ratings_total |-> "0"], [user_ratings_total |-> "120"]}}

DetailResponses ==
    {HttpError, Json([status |-> "NOT_FOUND"])}
    \cup {Json([result |-> r]) : r \in DetailResults}

ResolveIdle == /\ response = HttpError /\ detail = HttpError

\* the user submits the single line "query" to a fresh session
ResolveQuery ==
    /\ action = Idle
    /\ \E run \in {main(places, widgets, TRUE, PlaceNames(<<"query">>),
                        <<response>>, <<detail>>, <<"ok">>, 0)} :
         Finish(run, "submit", 0, 0,
                NextWidgets(places, run.places, Rendered(run.places, widgets)))

----------------------------------------------------------------------------
(* app.py.  The geocoder is the environment: its answers are the tables    *)
(* below, and every call may raise.  A dict is a sequence of <<key, value>> *)
(* in insertion order.  None is modelled by "" for an address and by <<>>   *)
(* for a list: the code only tests their truth value.                      *)

\* what the user may have typed into a text input
Texts == {"1 main st", "2 main st", "mian st", "main", "zzz"}

\* gmaps.geocode(address): the formatted addresses of the results
GeocodeResults(address) ==
    CASE address \in {"1 main st", "1 Main St"} -> <<"1 Main St, Town">>
      [] address \in {"2 main st", "2 Main St"} -> <<"2 Main St, Town">>
      [] OTHER -> <<>>

\* gmaps.places_autocomplete(address): the descriptions of the results
AutocompleteResults(address) ==
    CASE address = "mian st" -> <<"1 Main St", "Main Rd", "2 Main St", "Main Sq">>
      [] address = "main"    -> <<"Main Rd", "2 Main St">>
      [] OTHER -> <<>>

CallOutcomes == {"ok", "raise"}

MaxSuggestions == 3

\* validate_address; gout and aout are the outcomes of the two calls
validate_address(address, gout, aout) ==
    IF gout = "raise"
    THEN [valid |-> "", suggestions |-> <<>>, log |-> <<"error_validating">>]
    ELSE IF GeocodeResults(address) # <<>>
    THEN [valid |-> GeocodeResults(address)[1], suggestions |-> <<>>, log |-> <<>>]
    ELSE IF aout = "raise"
    THEN [valid |-> "", suggestions |-> <<>>, log |-> <<"error_validating">>]
    ELSE [valid |-> "",
          suggestions |-> Take(AutocompleteResults(address), MaxSuggestions),
          log |-> <<>>]

\* len(d)
DictKeys(d) == {d[k][1] : k \in 1..Len(d)}

\* d[key] = value
DictSet(d, key, value) ==
    IF key \in DictKeys(d)
    THEN [k \in 1..Len(d) |-> IF d[k][1] = key THEN <<key, value>> ELSE d[k]]
    ELSE Append(d, <<key, value>>)

\* the text the widget keyed <<loop, n>> returns
TextInput(loop, n) ==
    IF n + 1 <= Len(a_input[loop]) THEN a_input[loop][n + 1] ELSE ""

\* "elif suggestions:" of one iteration: the selectbox, then the second
\* validation; v2 is what validate_address(choice) returned
Suggested(d, text, v2) ==
    IF v2.valid # ""
    THEN [dict |-> DictSet(d, text, v2.valid), log |-> v2.log \o <<"validated">>]
    ELSE [dict |-> d, log |-> v2.log]

\* "if start_point:" of one iteration; v is what validate_address returned,
\* choice the option of the suggestion selectbox, gout and aout the outcomes
\* of the calls made for the choice
Entered(d, text, v, choice, gout, aout) ==
    IF v.valid # ""
    THEN [dict |-> DictSet(d, text, v.valid), log |-> v.log \o <<"validated">>]
    ELSE IF v.suggestions # <<>>
    THEN After(v.log, Suggested(d, text, validate_address(choice, gout, aout)))
    ELSE [dict |-> d, log |-> v.log \o <<"invalid_address">>]

\* the suggestions an iteration offers for text
Offered(text, gout, aout) ==
    IF validate_address(text, gout, aout).suggestions = <<>> THEN {""}
    ELSE {validate_address(text, gout, aout).suggestions[k] :
            k \in 1..Len(validate_address(text, gout, aout).suggestions)}

\* one iteration of "while True" over the dict held by loop ("start" or
\* "dest"): Streamlit raises DuplicateWidgetID when a key is created twice
\* in one run
Iteration(loop, d, d2, next) ==
    /\ a_pc = loop
    /\ IF <<loop, Len(d)>> \in a_keys
       THEN /\ a_pc' = "DuplicateWidgetID"
            /\ UNCHANGED <<a_start, a_dest, a_keys, a_log>>
       ELSE /\ a_keys' = a_keys \cup {<<loop, Len(d)>>}
            /\ IF TextInput(loop, Len(d)) # ""
               THEN \E gout \in CallOutcomes, aout \in CallOutcomes,
                       gout2 \in CallOutcomes, aout2 \in CallOutcomes :
                    \E choice \in Offered(TextInput(loop, Len(d)), gout, aout) :
                    \E r \in {Entered(d, TextInput(loop, Len(d)),
                                      validate_address(TextInput(loop, Len(d)),
                                                       gout, aout),
                                      choice, gout2, aout2)} :
                      /\ d2 = r.dict
                      /\ a_log' = a_log \o r.log
                      /\ a_pc' = loop
               ELSE /\ d2 = d
                    /\ a_log' = a_log
                    /\ a_pc' = next
    /\ UNCHANGED a_input

\* the start-point loop
StartIteration ==
    /\ Iteration("start", a_start, a_start', "checkboxes")
    /\ a_pc = "start" /\ a_dest' = a_dest
    /\ UNCHANGED <<reviewVars, resolveVars>>

\* "Use '<start>' as a destination too?": the boxes the user has ticked
Checkboxes ==
    /\ a_pc = "checkboxes"
    /\ IF a_input.trip_type = "One-way" \/ Len(a_start) > 1
       THEN \E ticked \in SUBSET (1..Len(a_start)) :
              a_dest' = SelectSeq(a_start, LAMBDA e : \E k \in ticked : a_start[k] = e)
       ELSE a_dest' = a_dest
    /\ a_pc' = "dest"
    /\ UNCHANGED <<a_start, a_keys, a_input, a_log>>
    /\ UNCHANGED <<reviewVars, resolveVars>>

\* the destination loop
DestIteration ==
    /\ Iteration("dest", a_dest, a_dest', "done")
    /\ a_pc = "dest" /\ a_start' = a_start
    /\ UNCHANGED <<reviewVars, resolveVars>>

AppIdle ==
    /\ a_pc = "off" /\ a_start = <<>> /\ a_dest = <<>>
    /\ a_keys = {} /\ a_input = <<>> /\ a_log = <<>>

ReviewInit ==
    /\ places = init_session_state
    /\ widgets = <<>>
    /\ log = <<>>
    /\ action = Idle
    /\ rerun = FALSE

Init == ReviewInit /\ ResolveIdle /\ AppIdle

Next == SubmitPlaces \/ SelectAlternative \/ RemovePlace \/ ClearAll \/ ScriptRerun

Spec == Init /\ [][Next]_vars

ResolveInit ==
    /\ ReviewInit
    /\ response \in SearchResponses
    /\ detail \in DetailResponses
    /\ AppIdle

ResolveNext == ResolveQuery

SpecResolve == ResolveInit /\ [][ResolveNext]_vars

\* a run of app.py's main() over what the user has typed
AppInit ==
    /\ ReviewInit
    /\ ResolveIdle
    /\ a_pc = "start"
    /\ a_start = <<>>
    /\ a_dest = <<>>
    /\ a_keys = {}
    /\ a_log = <<>>
    /\ a_input \in [start : UNION {[1..n -> Texts] : n \in 0..MaxFields},
                    dest : UNION {[1..n -> Texts] : n \in 0..MaxFields},
                    trip_type : {"Return", "One-way"}]

AppNext == StartIteration \/ Checkboxes \/ DestIteration

SpecApp == AppInit /\ [][AppNext]_vars

----------------------------------------------------------------------------
(* Properties *)

Min(a, b) == IF a < b THEN a ELSE b

\* the events of the last run of a kind, in a phase
Events(ev, phase) ==
    {k \in 1..Len(log) : log[k].ev = ev /\ log[k].phase = phase}

\* C1: no two entries of the catalog have the same (name, address), in
\* every state Submit, replace, Remove and Clear All can reach.
C1_CatalogUnique ==
    \A i, j \in 1..Len(places) :
        (/\ places[i].details.name = places[j].details.name
         /\ places[i].details.address = places[j].details.address) => i = j

\* C2: a Submit line that resolves to the (name, address) of an entry of
\* the catalog is reported by a notice for that line, and a Submit whose
\* lines all do so leaves the catalog exactly as it was.
C2_DuplicateIsReportedNoOp ==
    [][action'.kind = "submit" =>
         /\ \A b \in 1..Len(log') :
              (log'[b].ev = "branch" /\ log'[b].what = "duplicate") =>
                  \E k \in 1..Len(log') :
                      /\ log'[k].ev = "notice"
                      /\ log'[k].phase = "submit"
                      /\ log'[k].pos = log'[b].pos
         /\ (/\ \E b \in 1..Len(log') : log'[b].ev = "branch"
             /\ \A k \in 1..Len(log') :
                  (log'[k].ev = "call" /\ log'[k].what = "search") =>
                      \E b \in 1..Len(log') :
                          /\ log'[b].ev = "branch"
                          /\ log'[b].pos = log'[k].pos)
            => places' = places]_vars

\* C3: Remove of entry i leaves the catalog without entry i and with every
\* other entry unchanged, in the same order: one entry less.
C3_RemoveExactlyOne ==
    [][action'.kind = "remove" => places' = DelAt(places, action'.pos)]_vars

\* the run of a select action fetched the details it asked for
Replaced ==
    /\ action.kind = "select"
    /\ \E k \in 1..Len(log) :
         /\ log[k].ev = "notice" /\ log[k].what = "updated"
         /\ log[k].pos = action.pos

\* C4: when the user picks another alternative for entry i and its details
\* arrive, entry i holds that alternative's identifier and details, and the
\* catalog has the same length and the same entries everywhere else.
C4_ReplaceInPlace ==
    [][Replaced' =>
         /\ Len(places') = Len(places)
         /\ places'[action'.pos].selected =
                places[action'.pos].alternatives[action'.opt].place_id
         /\ places'[action'.pos].details =
                get_place_details(places'[action'.pos].selected,
                    DetailsExchange(places'[action'.pos].selected, "ok")).value
         /\ \A j \in 1..Len(places) : j # action'.pos => places'[j] = places[j]]_vars

\* the query of SpecResolve was submitted and the text search answered it
\* with n results
Answered(n) ==
    /\ action.kind = "submit"
    /\ response.kind = "json"
    /\ "results" \in DOMAIN response.body
    /\ Len(response.body["results"]) = n

\* C5: a search answer of N >= 2 results yields min(N, 5) candidates, the
\* k-th candidate being the provider's k-th result, and these candidates are
\* what the added entry keeps as its alternatives.
C5_CandidatesTruncatedInOrder ==
    \A n \in 2..(MaxResults + 1) :
        Answered(n) =>
            LET results == response.body["results"]
                candidates == find_place("query", response).value
            IN /\ Len(candidates) = Min(n, 5)
               /\ \A k \in 1..Len(candidates) :
                    /\ candidates[k].place_id = results[k]["place_id"]
                    /\ candidates[k].display =
                           <<results[k]["name"], results[k]["formatted_address"]>>
               /\ places # <<>> => places[1].alternatives = candidates

C5_Witness ==
    /\ Answered(6)
    /\ places # <<>>
    /\ Len(places[1].alternatives) = 5
    /\ places[1].alternatives[5].place_id = response.body["results"][5]["place_id"]

\* C6: a submitted line gets the not-found notice exactly when its search
\* succeeded with zero results, and a line whose search failed gets the
\* service error and no not-found notice.
C6_NotFoundOnlyOnZeroResults ==
    \A k \in 1..Len(log) :
        (log[k].ev = "call" /\ log[k].what = "search") =>
            LET NotFound == \E m \in 1..Len(log) :
                                /\ log[m].ev = "notice" /\ log[m].what = "no_match"
                                /\ log[m].phase = "submit" /\ log[m].pos = log[k].pos
                Failed == \E m \in 1..Len(log) :
                              /\ log[m].ev = "notice" /\ log[m].what = "request_error"
                              /\ log[m].phase = "submit" /\ log[m].pos = log[k].pos
            IN /\ NotFound <=> (log[k].res = "ok" /\ log[k].n = 0)
               /\ log[k].res = "fail" => (Failed /\ ~NotFound)

\* C7: a run makes a details request in its review of the catalog only for
\* the entry whose alternative the user has just picked; a request that
\* failed is not made again by a run some other interaction triggered.
C7_NoAutomaticRetry ==
    \A k \in Events("call", "review") :
        action.kind = "select" /\ log[k].pos = action.pos

\* the values a details answer for "result" object r must give an entry
Expected(r) ==
    [name |-> r["name"],
     address |-> r["formatted_address"],
     rating |-> IF "rating" \in DOMAIN r THEN r["rating"] ELSE "N/A",
     total_ratings |-> IF "user_ratings_total" \in DOMAIN r
                       THEN r["user_ratings_total"] ELSE "N/A"]

\* the details request of SpecResolve answered with a "result" object
Detailed ==
    /\ detail.kind = "json"
    /\ "result" \in DOMAIN detail.body

\* C8: a query with exactly one result whose details arrive adds an entry
\* with the provider's name, address, rating and review count; an absent
\* rating or review count is "N/A", never 0, each independently, and a
\* provider 0 stays 0.
C8_ConfirmedFieldsAndSentinel ==
    (Answered(1) /\ Detailed) =>
        /\ Len(places) = 1
        /\ places[1].details = Expected(detail.body["result"])
        /\ "rating" \notin DOMAIN detail.body["result"]
               => places[1].details.rating # "0"
        /\ "user_ratings_total" \notin DOMAIN detail.body["result"]
               => places[1].details.total_ratings # "0"

C8_Witness ==
    /\ Answered(1) /\ Detailed
    /\ "rating" \notin DOMAIN detail.body["result"]
    /\ Len(places) = 1
    /\ places[1].details.rating = "N/A"
    /\ places[1].details.total_ratings = "0"

\* an entry whose selection is one of its at most 5 alternatives and whose
\* details are the provider's for that selection
Consistent(place) ==
    /\ Len(place.alternatives) \in 1..5
    /\ \E k \in 1..Len(place.alternatives) :
         place.alternatives[k].place_id = place.selected
    /\ place.details = Expected(ProviderDetail(place.selected))

\* C9: every entry has 1 to 5 alternatives, its selection is one of them
\* and its details are those fetched for that selection; a failed details
\* request for the entry at some position leaves that entry as it was.
C9_SelectionConsistent ==
    [][/\ \A i \in 1..Len(places') : Consistent(places'[i])
       /\ \A k \in 1..Len(log') :
            (/\ log'[k].ev = "call" /\ log'[k].phase = "review"
             /\ log'[k].res = "fail")
                => places'[log'[k].pos] = places[log'[k].pos]]_vars

C9_Witness ==
    /\ action.kind = "select"
    /\ \E k \in Events("call", "review") :
         log[k].pos = action.pos /\ log[k].res = "fail"
    /\ Mismatch(places[action.pos], widgets[action.pos])
    /\ Consistent(places[action.pos])

\* C10: the two entry loops of app.py end normally and no widget key is
\* created twice in a run, whatever the user typed.
C10_LoopsEndNormally == a_pc # "DuplicateWidgetID"

====
